---- MODULE Spec2Model ----
(***************************************************************************)
(* Model of uniswap_swap_monitor (src/src/lib.rs): run() opens the SQLite  *)
(* store, builds the Swap filter, connects, subscribes and then consumes   *)
(* the subscription one log at a time: decode, build the CombinedLog,      *)
(* insert a row, print a line.                                             *)
(*                                                                         *)
(* Bytes are naturals 0..255, byte strings are sequences of bytes with the *)
(* real widths (32-byte hashes, topics and ABI slots, 20-byte addresses).  *)
(* Text columns are strings.  Option values are sequences of length 0 or 1.*)
(***************************************************************************)
EXTENDS Integers, Sequences, FiniteSets, TLC

(***************************************************************************)
(* Widths of the fixed-size types.                                         *)
(***************************************************************************)
HashBytes == 32
AddressBytes == 20
SlotBytes == 32
U128Bytes == 16
I32Bytes == 4
TupleArity == 5

(***************************************************************************)
(* Bounds of the model.                                                    *)
(***************************************************************************)
MaxEvents == 3
MaxPriorRows == 1

Zeros(n) == [i \in 1..n |-> 0]
Ones(n) == [i \in 1..n |-> 255]
Pad32(bs) == Zeros(SlotBytes - Len(bs)) \o bs
SignExt32(bs) == Ones(SlotBytes - Len(bs)) \o bs

None == <<>>
Some(v) == <<v>>
IsSome(o) == Len(o) = 1
Unwrap(o) == o[1]

(***************************************************************************)
(* Text formatting of the ethers fixed-size types, as insert_log uses it.  *)
(***************************************************************************)
HexDigits == <<"0","1","2","3","4","5","6","7","8","9","a","b","c","d","e","f">>
DecDigits == <<"0","1","2","3","4","5","6","7","8","9">>

\* The recursions below are recursive functions: a function is applied to
\* the value of its argument.
Bytes == Seq(Nat)

\* {:x} of a fixed hash: two lowercase hex digits per byte, every byte.
LowerHex[bs \in Bytes] ==
  IF bs = <<>> THEN ""
  ELSE HexDigits[(Head(bs) \div 16) + 1] \o HexDigits[(Head(bs) % 16) + 1]
       \o LowerHex[Tail(bs)]

\* {:#x}: the alternate flag adds the 0x prefix.
FmtAltLowerHex(bs) == "0x" \o LowerHex[bs]

StripZeros[bs \in Bytes] ==
  IF bs = <<>> THEN <<>>
  ELSE IF Head(bs) = 0 THEN StripZeros[Tail(bs)] ELSE bs

\* Long division of a big-endian base-256 number by ten.
DivMod10[bs \in Bytes, rem \in Nat, acc \in Bytes] ==
  IF bs = <<>> THEN [q |-> acc, r |-> rem]
  ELSE DivMod10[Tail(bs), (rem * 256 + Head(bs)) % 10,
                Append(acc, (rem * 256 + Head(bs)) \div 10)]

DecDigitsOf[bs \in Bytes] ==
  IF bs = <<>> THEN ""
  ELSE DecDigitsOf[StripZeros[DivMod10[bs, 0, <<>>].q]]
       \o DecDigits[DivMod10[bs, 0, <<>>].r + 1]

\* U256::to_string / u128::to_string: base ten, no leading zeros, "0" for 0.
Unsigned_to_string(bs) ==
  IF StripZeros[bs] = <<>> THEN "0" ELSE DecDigitsOf[StripZeros[bs]]

\* bs + 1 modulo 256^Len(bs), big-endian.
AddOne[bs \in Bytes] ==
  IF bs = <<>> THEN <<>>
  ELSE IF bs[Len(bs)] = 255
       THEN Append(AddOne[SubSeq(bs, 1, Len(bs) - 1)], 0)
       ELSE Append(SubSeq(bs, 1, Len(bs) - 1), bs[Len(bs)] + 1)

\* Two's complement negation at the width of bs.
TwosComplement(bs) == AddOne[[i \in 1..Len(bs) |-> 255 - bs[i]]]

IsNegative(bs) == bs[1] >= 128

\* I256::to_string: sign and magnitude, '-' for negatives.
I256_to_string(bs) ==
  IF IsNegative(bs) THEN "-" \o Unsigned_to_string(TwosComplement(bs))
  ELSE Unsigned_to_string(bs)

\* The low four bytes of a slot read as a two's complement i32.
LowI32(slot) ==
  LET b == SubSeq(slot, SlotBytes - I32Bytes + 1, SlotBytes)
      top == IF b[1] >= 128 THEN b[1] - 256 ELSE b[1]
  IN top * 16777216 + b[2] * 65536 + b[3] * 256 + b[4]

\* The low sixteen bytes of a slot (U256::low_u128).
LowU128(slot) == SubSeq(slot, SlotBytes - U128Bytes + 1, SlotBytes)

\* Variant: the first 20 bytes of the word instead of the last.
Address_from_H256_high(h) == SubSeq(h, 1, AddressBytes)

\* Address::from(H256): the low 20 bytes of the 32-byte word.
Address_from_H256(h) == SubSeq(h, HashBytes - AddressBytes + 1, HashBytes)

(***************************************************************************)
(* decode_log_data: the payload is read as five consecutive 32-byte slots. *)
(***************************************************************************)
Ok(v) == [ok |-> TRUE, val |-> v]
Err(e) == [ok |-> FALSE, err |-> e]

\* Variant: a short payload is read as if zero-padded.
peek_32_bytes_padded(data, offset) ==
  Ok(SubSeq(data \o Zeros(SlotBytes * TupleArity), offset + 1, offset + SlotBytes))

peek_32_bytes(data, offset) ==
  IF offset + SlotBytes > Len(data) THEN Err("DecodeError")
  ELSE Ok(SubSeq(data, offset + 1, offset + SlotBytes))

decode_log_data(data) ==
  LET slot == [i \in 1..TupleArity |-> peek_32_bytes(data, SlotBytes * (i - 1))]
  IN IF \E i \in 1..TupleArity : ~slot[i].ok THEN Err("DecodeError")
     ELSE Ok([amount0 |-> slot[1].val,
              amount1 |-> slot[2].val,
              sqrt_price |-> slot[3].val,
              liquidity |-> LowU128(slot[4].val),
              tick |-> LowI32(slot[5].val)])

(***************************************************************************)
(* Address::from_str as create_pool_filter uses it: an optional 0x prefix  *)
(* followed by exactly forty hex digits.  Text is a sequence of characters.*)
(***************************************************************************)
UpperHexDigits == <<"0","1","2","3","4","5","6","7","8","9","A","B","C","D","E","F">>
IsHexChar(c) == \E i \in 1..16 : HexDigits[i] = c \/ UpperHexDigits[i] = c
HexVal(c) == (CHOOSE i \in 1..16 : HexDigits[i] = c \/ UpperHexDigits[i] = c) - 1

StripPrefix(s) ==
  IF Len(s) >= 2 /\ s[1] = "0" /\ s[2] = "x" THEN SubSeq(s, 3, Len(s)) ELSE s

Address_from_str(s) ==
  LET h == StripPrefix(s)
  IN IF Len(h) # 2 * AddressBytes \/ \E i \in 1..Len(h) : ~IsHexChar(h[i])
     THEN Err("InvalidAddress")
     ELSE Ok([i \in 1..AddressBytes |-> 16 * HexVal(h[2 * i - 1]) + HexVal(h[2 * i])])

SwapSignature == "Swap(address,address,int256,int256,uint160,uint128,int24)"

\* Result::unwrap on the parsed address: a parse error is a panic, not an Err.
create_pool_filter(contract_address) ==
  LET pool_address == Address_from_str(contract_address)
  IN IF pool_address.ok
     THEN [panic |-> FALSE,
           filter |-> [address |-> <<pool_address.val>>, event |-> SwapSignature]]
     ELSE [panic |-> TRUE]

(***************************************************************************)
(* The store: the file at db_path, the schema of its logs table (None when *)
(* the table is absent) and the rows of the table in insertion order.      *)
(***************************************************************************)
LogsSchema ==
  << [name |-> "tx_hash", type |-> "TEXT"],
     [name |-> "sender_address", type |-> "TEXT"],
     [name |-> "receiver_address", type |-> "TEXT"],
     [name |-> "amount0", type |-> "TEXT"],
     [name |-> "amount1", type |-> "TEXT"],
     [name |-> "sqrt_price", type |-> "TEXT"],
     [name |-> "liquidity", type |-> "TEXT"],
     [name |-> "tick", type |-> "INTEGER"] >>

\* A logs table some other program left at db_path.
ForeignSchema == << [name |-> "id", type |-> "INTEGER"] >>

\* Variant: the table is dropped and created again.
initialize_database_recreate(d) ==
  [exists |-> TRUE, schema |-> Some(LogsSchema), rows |-> <<>>]

\* CREATE TABLE IF NOT EXISTS logs (...) on the opened file.
initialize_database(d) ==
  IF IsSome(d.schema) THEN [d EXCEPT !.exists = TRUE]
  ELSE [exists |-> TRUE, schema |-> Some(LogsSchema), rows |-> <<>>]

\* Variant: an absent hash stays empty.
CombinedLog_new_empty(tx_hash, sender, receiver, data) ==
  [tx_hash |-> IF IsSome(tx_hash) THEN Unwrap(tx_hash) ELSE <<>>,
   sender |-> sender,
   receiver |-> receiver,
   data |-> data]

CombinedLog_new(tx_hash, sender, receiver, data) ==
  [tx_hash |-> IF IsSome(tx_hash) THEN Unwrap(tx_hash) ELSE Zeros(HashBytes),
   sender |-> sender,
   receiver |-> receiver,
   data |-> data]

\* The parameters insert_log binds to ?1..?8.
RowOf(combined_log) ==
  [tx_hash |-> FmtAltLowerHex(combined_log.tx_hash),
   sender_address |-> FmtAltLowerHex(combined_log.sender),
   receiver_address |-> FmtAltLowerHex(combined_log.receiver),
   amount0 |-> I256_to_string(combined_log.data.amount0),
   amount1 |-> I256_to_string(combined_log.data.amount1),
   sqrt_price |-> Unsigned_to_string(combined_log.data.sqrt_price),
   liquidity |-> Unsigned_to_string(combined_log.data.liquidity),
   tick |-> combined_log.data.tick]

InsertColumns ==
  {"tx_hash", "sender_address", "receiver_address", "amount0", "amount1",
   "sqrt_price", "liquidity", "tick"}

\* The INSERT is rejected when the table lacks one of the named columns.
InsertAccepted(d) ==
  /\ IsSome(d.schema)
  /\ \A c \in InsertColumns :
       \E i \in 1..Len(Unwrap(d.schema)) : Unwrap(d.schema)[i].name = c

\* Variant: a row equal to an existing one is not inserted again.
insert_log_dedup(d, combined_log) ==
  IF \E i \in 1..Len(d.rows) : d.rows[i] = RowOf(combined_log) THEN d
  ELSE [d EXCEPT !.rows = Append(d.rows, RowOf(combined_log))]

\* INSERT INTO logs (...) VALUES (?1..?8): one new row after the others.
insert_log(d, combined_log) ==
  [d EXCEPT !.rows = Append(d.rows, RowOf(combined_log))]

print_log(combined_log, data) ==
  "new | tx_hash: " \o FmtAltLowerHex(combined_log.tx_hash)
  \o ", sender: " \o FmtAltLowerHex(combined_log.sender)
  \o ", receiver: " \o FmtAltLowerHex(combined_log.receiver)
  \o ", amount0: " \o I256_to_string(data.amount0)
  \o ", amount1: " \o I256_to_string(data.amount1)
  \o ", sqrt_price: " \o Unsigned_to_string(data.sqrt_price)
  \o ", liquidity: " \o Unsigned_to_string(data.liquidity)
  \o ", tick: " \o ToString(data.tick)

(***************************************************************************)
(* Sample inputs.  TestLog is the log of tests::create_test_log.           *)
(***************************************************************************)
TestTxHash ==
  <<233,41,85,180,196,107,56,222,24,193,205,213,139,6,212,157,
    69,214,249,202,9,6,168,105,24,244,207,32,101,6,131,180>>
TestTopic0 ==
  <<196,32,121,249,74,99,80,215,230,35,95,41,23,73,36,249,
    40,204,42,200,24,235,100,254,216,0,78,17,95,188,202,103>>
TestTopic1 ==
  Zeros(12) \o <<229,146,66,122,10,236,233,45,227,237,238,31,24,224,21,124,5,134,21,100>>
TestTopic2 ==
  Zeros(12) \o <<75,125,108,60,234,1,244,213,74,156,173,101,135,218,16,110,163,157,161,230>>
TestData ==
  SignExt32(<<240,81,27,128>>)
  \o Pad32(<<2,64,229,64,226,220,0,66>>)
  \o Pad32(<<97,4,19,161,167,200,20,170,152,202,54,208,159,139>>)
  \o Pad32(<<1,196,132,106,221,189,37,159,175>>)
  \o Pad32(<<3,22,171>>)

TestLog ==
  [transaction_hash |-> Some(TestTxHash),
   topics |-> <<TestTopic0, TestTopic1, TestTopic2>>,
   data |-> TestData]

\* No transaction hash; extreme field values; a negative tick.
PendingTopic1 == Zeros(12) \o Zeros(4) \o <<33,154,181,64,53,108,187,131,156,190,5,48,61,119,5,250>>
PendingTopic2 == <<1,2,3,4,5,6,7,8,9,10,11,12>> \o Ones(20)
PendingData ==
  Zeros(SlotBytes)
  \o Ones(SlotBytes)
  \o Pad32(Ones(20))
  \o Pad32(Ones(U128Bytes))
  \o SignExt32(<<242,118,24>>)

PendingLog ==
  [transaction_hash |-> None,
   topics |-> <<TestTopic0, PendingTopic1, PendingTopic2>>,
   data |-> PendingData]

\* One byte short of the five slots.
TruncatedLog == [TestLog EXCEPT !.data = SubSeq(TestData, 1, SlotBytes * TupleArity - 1)]

\* No payload at all.
EmptyDataLog == [TestLog EXCEPT !.data = <<>>]

\* Only two topics: the signature hash and the sender.
TwoTopicLog == [TestLog EXCEPT !.topics = <<TestTopic0, TestTopic1>>]

\* Only the signature hash as topic, and a payload of one slot.
BareLog == [TestLog EXCEPT !.topics = <<TestTopic0>>, !.data = SubSeq(TestData, 1, SlotBytes)]

SampleLogs == {TestLog, PendingLog, TruncatedLog, EmptyDataLog, TwoTopicLog, BareLog}

ValidAddressText == <<"0", "x">> \o [i \in 1..(2 * AddressBytes) |-> HexDigits[(i % 16) + 1]]
ShortAddressText == <<"0", "x", "8", "8", "e", "6">>
NonHexAddressText == [i \in 1..(2 * AddressBytes) |-> "z"]
SampleAddresses == {ValidAddressText, ShortAddressText, NonHexAddressText}

\* The row tests::test_process_log expects for TestLog.
TestRow ==
  [tx_hash |-> "0xe92955b4c46b38de18c1cdd58b06d49d45d6f9ca0906a86918f4cf20650683b4",
   sender_address |-> "0xe592427a0aece92de3edee1f18e0157c05861564",
   receiver_address |-> "0x4b7d6c3cea01f4d54a9cad6587da106ea39da1e6",
   amount0 |-> "-263120000",
   amount1 |-> "162381653432074306",
   sqrt_price |-> "1967716719848838692609454179917707",
   liquidity |-> "32607304702662909871",
   tick |-> 202411]

RECURSIVE SeqsUpTo(_, _)
SeqsUpTo(S, n) ==
  IF n = 0 THEN {<<>>}
  ELSE LET shorter == SeqsUpTo(S, n - 1)
       IN shorter \cup {Append(s, x) : s \in shorter, x \in S}

\* What db_path may hold before run: nothing, a logs table written by an
\* earlier run, or a logs table of another shape.
InitialStores ==
  {[exists |-> FALSE, schema |-> None, rows |-> <<>>],
   [exists |-> TRUE, schema |-> None, rows |-> <<>>],
   [exists |-> TRUE, schema |-> Some(ForeignSchema), rows |-> <<>>]}
  \cup {[exists |-> TRUE, schema |-> Some(LogsSchema), rows |-> r] :
          r \in SeqsUpTo({TestRow}, MaxPriorRows)}

(***************************************************************************)
(* State.                                                                  *)
(*   pc               the statement run() executes next                    *)
(*   result           "running", or what run() ended with                  *)
(*   contract_address the address text run() was given                     *)
(*   db               the store at db_path                                 *)
(*   db0              the store as it was before run() started             *)
(*   pool_filter      the filter built by create_pool_filter               *)
(*   connected        the provider handshake completed                     *)
(*   subscribed       subscribe_logs returned the stream                   *)
(*   stream           logs delivered by the node and not yet fetched       *)
(*   closed           the node ended the subscription                      *)
(*   delivered        every log the subscription delivered, in order       *)
(*   fetched          how many logs stream.next() has returned             *)
(*   log              the log process_log is working on                    *)
(*   log_data         the LogData decoded from it                          *)
(*   combined_log     the CombinedLog built from it                        *)
(*   stdout           the lines printed, in order                          *)
(***************************************************************************)
VARIABLES pc, result, contract_address, db, db0, pool_filter, connected,
          subscribed, stream, closed, delivered, fetched, log, log_data,
          combined_log, stdout

vars == <<pc, result, contract_address, db, db0, pool_filter, connected,
          subscribed, stream, closed, delivered, fetched, log, log_data,
          combined_log, stdout>>

feed == <<stream, closed, delivered, fetched>>
locals == <<log, log_data, combined_log>>
setup == <<contract_address, db0, pool_filter, connected, subscribed>>

Init ==
  /\ pc = "initialize_database"
  /\ result = "running"
  /\ contract_address \in SampleAddresses
  /\ db \in InitialStores
  /\ db0 = db
  /\ pool_filter = None
  /\ connected = FALSE
  /\ subscribed = FALSE
  /\ stream = <<>>
  /\ closed = FALSE
  /\ delivered = <<>>
  /\ fetched = 0
  /\ log = None
  /\ log_data = None
  /\ combined_log = None
  /\ stdout = <<>>

\* run() returns r (or unwinds with a panic); its locals are dropped.
Return(r) ==
  /\ pc' = "done"
  /\ result' = r

(***************************************************************************)
(* run, line 144: Connection::open, then CREATE TABLE IF NOT EXISTS.       *)
(* Either call may fail and `?` returns the error.                         *)
(***************************************************************************)
run_initialize_database ==
  /\ pc = "initialize_database"
  /\ \E outcome \in {"open_failed", "create_failed", "ok"} :
       \/ /\ outcome = "open_failed"
          /\ Return("PersistenceError")
          /\ UNCHANGED db
       \/ /\ outcome = "create_failed"
          /\ Return("PersistenceError")
          /\ db' = [db EXCEPT !.exists = TRUE]
       \/ /\ outcome = "ok"
          /\ db' = initialize_database(db)
          /\ pc' = "create_pool_filter"
          /\ UNCHANGED result
  /\ UNCHANGED <<setup, feed, locals, stdout>>

(***************************************************************************)
(* run, line 145.                                                          *)
(***************************************************************************)
run_create_pool_filter ==
  /\ pc = "create_pool_filter"
  /\ LET f == create_pool_filter(contract_address)
     IN IF f.panic
        THEN Return("panic") /\ UNCHANGED pool_filter
        ELSE /\ pool_filter' = Some(f.filter)
             /\ pc' = "connect_to_provider"
             /\ UNCHANGED result
  /\ UNCHANGED <<contract_address, db, db0, connected, subscribed, feed, locals, stdout>>

\* Variant: a failed handshake is ignored and run() goes on to subscribe.
run_connect_to_provider_ignore_failure ==
  /\ pc = "connect_to_provider"
  /\ \E handshake \in BOOLEAN :
       /\ connected' = handshake
       /\ pc' = "subscribe_logs"
       /\ UNCHANGED result
  /\ UNCHANGED <<contract_address, db, db0, pool_filter, subscribed, feed, locals, stdout>>

(***************************************************************************)
(* run, line 146: the handshake completes or fails.                        *)
(***************************************************************************)
run_connect_to_provider ==
  /\ pc = "connect_to_provider"
  /\ \E handshake \in BOOLEAN :
       IF handshake
       THEN /\ connected' = TRUE
            /\ pc' = "subscribe_logs"
            /\ UNCHANGED result
       ELSE Return("ConnectionError") /\ UNCHANGED connected
  /\ UNCHANGED <<contract_address, db, db0, pool_filter, subscribed, feed, locals, stdout>>

(***************************************************************************)
(* handle_logs, line 105: the subscription request succeeds or fails.      *)
(***************************************************************************)
handle_logs_subscribe ==
  /\ pc = "subscribe_logs"
  /\ \E accepted \in BOOLEAN :
       IF accepted
       THEN /\ subscribed' = TRUE
            /\ pc' = "stream_next"
            /\ UNCHANGED result
       ELSE Return("ConnectionError") /\ UNCHANGED subscribed
  /\ UNCHANGED <<contract_address, db, db0, pool_filter, connected, feed, locals, stdout>>

\* Variant: the loop also ends when no log is pending at the moment.
handle_logs_next_idle_ends ==
  /\ pc = "stream_next"
  /\ \/ /\ stream # <<>>
        /\ log' = Some(Head(stream))
        /\ stream' = Tail(stream)
        /\ fetched' = fetched + 1
        /\ pc' = "decode_log_data"
        /\ UNCHANGED <<result, closed, delivered>>
     \/ /\ stream = <<>>
        /\ Return("Ok")
        /\ UNCHANGED <<feed, log>>
  /\ UNCHANGED <<setup, db, log_data, combined_log, stdout>>

\* Variant: the newest pending log is taken first.
handle_logs_next_newest ==
  /\ pc = "stream_next"
  /\ \/ /\ stream # <<>>
        /\ log' = Some(stream[Len(stream)])
        /\ stream' = SubSeq(stream, 1, Len(stream) - 1)
        /\ fetched' = fetched + 1
        /\ pc' = "decode_log_data"
        /\ UNCHANGED <<result, closed, delivered>>
     \/ /\ stream = <<>>
        /\ closed
        /\ Return("Ok")
        /\ UNCHANGED <<feed, log>>
  /\ UNCHANGED <<setup, db, log_data, combined_log, stdout>>

\* Variant: the end of the subscription is reported as an error.
handle_logs_next_eof_error ==
  /\ pc = "stream_next"
  /\ \/ /\ stream # <<>>
        /\ log' = Some(Head(stream))
        /\ stream' = Tail(stream)
        /\ fetched' = fetched + 1
        /\ pc' = "decode_log_data"
        /\ UNCHANGED <<result, closed, delivered>>
     \/ /\ stream = <<>>
        /\ closed
        /\ Return("ConnectionError")
        /\ UNCHANGED <<feed, log>>
  /\ UNCHANGED <<setup, db, log_data, combined_log, stdout>>

(***************************************************************************)
(* handle_logs, line 106: stream.next().await yields the oldest pending    *)
(* log, or None once the subscription has ended and nothing is pending;    *)
(* then the loop ends and handle_logs and run return Ok(()).               *)
(***************************************************************************)
handle_logs_next ==
  /\ pc = "stream_next"
  /\ \/ /\ stream # <<>>
        /\ log' = Some(Head(stream))
        /\ stream' = Tail(stream)
        /\ fetched' = fetched + 1
        /\ pc' = "decode_log_data"
        /\ UNCHANGED <<result, closed, delivered>>
     \/ /\ stream = <<>>
        /\ closed
        /\ Return("Ok")
        /\ UNCHANGED <<feed, log>>
  /\ UNCHANGED <<setup, db, log_data, combined_log, stdout>>

\* Variant: a log that does not decode is skipped and the loop goes on.
process_log_decode_skip ==
  /\ pc = "decode_log_data"
  /\ LET d == decode_log_data(Unwrap(log).data)
     IN IF d.ok
        THEN /\ log_data' = Some(d.val)
             /\ pc' = "CombinedLog_new"
             /\ UNCHANGED log
        ELSE /\ log' = None
             /\ pc' = "stream_next"
             /\ UNCHANGED log_data
  /\ UNCHANGED <<result, setup, db, feed, combined_log, stdout>>

(***************************************************************************)
(* process_log, line 88.                                                   *)
(***************************************************************************)
process_log_decode ==
  /\ pc = "decode_log_data"
  /\ LET d == decode_log_data(Unwrap(log).data)
     IN IF d.ok
        THEN /\ log_data' = Some(d.val)
             /\ pc' = "CombinedLog_new"
             /\ UNCHANGED result
        ELSE Return(d.err) /\ UNCHANGED log_data
  /\ UNCHANGED <<setup, db, feed, log, combined_log, stdout>>

\* Variant: a missing topic is read as the zero word instead of panicking.
process_log_combine_lenient ==
  /\ pc = "CombinedLog_new"
  /\ LET l == Unwrap(log)
         topic(i) == IF i <= Len(l.topics) THEN l.topics[i] ELSE Zeros(HashBytes)
     IN /\ combined_log' = Some(CombinedLog_new(l.transaction_hash,
                                                 Address_from_H256(topic(2)),
                                                 Address_from_H256(topic(3)),
                                                 Unwrap(log_data)))
        /\ pc' = "insert_log"
        /\ UNCHANGED result
  /\ UNCHANGED <<setup, db, feed, log, log_data, stdout>>

(***************************************************************************)
(* process_log, lines 89-94: topics[1] and topics[2] are indexed Vec       *)
(* accesses, which panic when the log has fewer than three topics.         *)
(***************************************************************************)
process_log_combine ==
  /\ pc = "CombinedLog_new"
  /\ LET l == Unwrap(log)
     IN IF Len(l.topics) < 3
        THEN Return("panic") /\ UNCHANGED combined_log
        ELSE /\ combined_log' = Some(CombinedLog_new(l.transaction_hash,
                                                      Address_from_H256(l.topics[2]),
                                                      Address_from_H256(l.topics[3]),
                                                      Unwrap(log_data)))
             /\ pc' = "insert_log"
             /\ UNCHANGED result
  /\ UNCHANGED <<setup, db, feed, log, log_data, stdout>>

\* Variant: the line is printed before the INSERT is attempted.
process_log_insert_print_first ==
  /\ pc = "insert_log"
  /\ stdout' = Append(stdout, print_log(Unwrap(combined_log), Unwrap(log_data)))
  /\ \E storage_ok \in BOOLEAN :
       IF storage_ok /\ InsertAccepted(db)
       THEN /\ db' = insert_log(db, Unwrap(combined_log))
            /\ log' = None
            /\ log_data' = None
            /\ combined_log' = None
            /\ pc' = "stream_next"
            /\ UNCHANGED result
       ELSE Return("PersistenceError") /\ UNCHANGED <<db, locals>>
  /\ UNCHANGED <<setup, feed>>

\* Variant: a failing INSERT has already written its row.
process_log_insert_partial ==
  /\ pc = "insert_log"
  /\ \E storage_ok \in BOOLEAN :
       IF storage_ok /\ InsertAccepted(db)
       THEN /\ db' = insert_log(db, Unwrap(combined_log))
            /\ pc' = "print_log"
            /\ UNCHANGED result
       ELSE /\ Return("PersistenceError")
            /\ db' = IF IsSome(db.schema) THEN insert_log(db, Unwrap(combined_log)) ELSE db
  /\ UNCHANGED <<setup, feed, locals, stdout>>

(***************************************************************************)
(* process_log, line 95: the INSERT commits one row or fails.              *)
(***************************************************************************)
process_log_insert ==
  /\ pc = "insert_log"
  /\ \E storage_ok \in BOOLEAN :
       IF storage_ok /\ InsertAccepted(db)
       THEN /\ db' = insert_log(db, Unwrap(combined_log))
            /\ pc' = "print_log"
            /\ UNCHANGED result
       ELSE Return("PersistenceError") /\ UNCHANGED db
  /\ UNCHANGED <<setup, feed, locals, stdout>>

(***************************************************************************)
(* process_log, lines 96-97: print the line, return Ok(()); the log and    *)
(* the values built from it are dropped and the loop fetches again.        *)
(***************************************************************************)
process_log_print ==
  /\ pc = "print_log"
  /\ stdout' = Append(stdout, print_log(Unwrap(combined_log), Unwrap(log_data)))
  /\ log' = None
  /\ log_data' = None
  /\ combined_log' = None
  /\ pc' = "stream_next"
  /\ UNCHANGED <<result, setup, db, feed>>

(***************************************************************************)
(* The node: while the subscription is open it delivers matching logs and  *)
(* may end the subscription.                                               *)
(***************************************************************************)
Deliver ==
  /\ subscribed
  /\ ~closed
  /\ result = "running"
  /\ Len(delivered) < MaxEvents
  /\ \E l \in SampleLogs :
       /\ stream' = Append(stream, l)
       /\ delivered' = Append(delivered, l)
  /\ UNCHANGED <<pc, result, setup, db, closed, fetched, locals, stdout>>

CloseStream ==
  /\ subscribed
  /\ ~closed
  /\ result = "running"
  /\ closed' = TRUE
  /\ UNCHANGED <<pc, result, setup, db, stream, delivered, fetched, locals, stdout>>

Step ==
  \/ run_initialize_database
  \/ run_create_pool_filter
  \/ run_connect_to_provider
  \/ handle_logs_subscribe
  \/ handle_logs_next
  \/ process_log_decode
  \/ process_log_combine
  \/ process_log_insert
  \/ process_log_print

Next == Step \/ Deliver \/ CloseStream

Spec == Init /\ [][Next]_vars

\* The runtime keeps polling the one task, so a statement that can execute
\* eventually does.
FairSpec == Spec /\ WF_vars(Step)

(***************************************************************************)
(* Vocabulary of the properties.                                           *)
(***************************************************************************)
PayloadBytes == SlotBytes * TupleArity

\* At least three topics and a payload that holds the five slots.
WellFormed(l) == Len(l.topics) >= 3 /\ Len(l.data) >= PayloadBytes

\* The rows this run added, in insertion order.
Added == SubSeq(db.rows, Len(db0.rows) + 1, Len(db.rows))

ZeroHashText == "0x0000000000000000000000000000000000000000000000000000000000000000"

\* The row PendingLog is to produce, written out by hand.
PendingRow ==
  [tx_hash |-> ZeroHashText,
   sender_address |-> "0x00000000219ab540356cbb839cbe05303d7705fa",
   receiver_address |-> "0xffffffffffffffffffffffffffffffffffffffff",
   amount0 |-> "0",
   amount1 |-> "-1",
   sqrt_price |-> "1461501637330902918203684832716283019655932542975",
   liquidity |-> "340282366920938463463374607431768211455",
   tick |-> -887272]

NoRow ==
  [tx_hash |-> "", sender_address |-> "", receiver_address |-> "", amount0 |-> "",
   amount1 |-> "", sqrt_price |-> "", liquidity |-> "", tick |-> 0]

\* The row each sample log is to produce; NoRow for the malformed ones.
ExpectedRow(l) ==
  CASE l = TestLog -> TestRow
    [] l = PendingLog -> PendingRow
    [] OTHER -> NoRow

\* 1 while the fetched log has no row (yet), 0 otherwise.
InFlight ==
  IF pc \in {"decode_log_data", "CombinedLog_new", "insert_log"}
     \/ (pc = "done" /\ IsSome(log))
  THEN 1 ELSE 0

ErrorResults == {"DecodeError", "PersistenceError"}

(***************************************************************************)
(* C1. Fail-fast.  No fetched log is skipped: every log fetched before the *)
(* current one has its row and its line.  When a log does not decode or    *)
(* its insert fails, run() ends at that log with that error, and once      *)
(* run() has ended nothing is fetched, decoded, stored or printed.         *)
(***************************************************************************)
C1_FailFast ==
  /\ [](Len(Added) >= fetched - 1 /\ Len(stdout) >= fetched - 1)
  /\ []((result \in ErrorResults /\ IsSome(log)) =>
          /\ pc = "done"
          /\ Unwrap(log) = delivered[fetched]
          /\ Len(Added) = fetched - 1
          /\ Len(stdout) = fetched - 1)
  /\ [][(pc = "decode_log_data" /\ pc' # pc /\ Len(Unwrap(log).data) < PayloadBytes)
          => (pc' = "done" /\ result' = "DecodeError")]_vars
  /\ [][(pc = "insert_log" /\ pc' # pc /\ db' = db)
          => (pc' = "done" /\ result' = "PersistenceError")]_vars
  /\ [][result # "running" => UNCHANGED <<result, pc, db, feed, locals, stdout>>]_vars

\* A log fails while a later log is already pending; the later one stays unfetched.
C1_Witness ==
  /\ result \in ErrorResults
  /\ fetched = 2
  /\ stream # <<>>
  /\ Len(Added) = 1

(***************************************************************************)
(* C2. Ordering.  The rows added are the rows of the delivered logs in     *)
(* delivery order, and a log is fetched only when every log fetched before *)
(* it has been decoded and stored; the log fetched is the next delivered.  *)
(***************************************************************************)
C2_Ordering ==
  /\ [](\A i \in 1..Len(Added) : Added[i] = ExpectedRow(delivered[i]))
  /\ [][fetched' # fetched =>
          /\ fetched' = fetched + 1
          /\ log = None /\ log_data = None /\ combined_log = None
          /\ Len(Added) = fetched
          /\ log' = Some(delivered[fetched + 1])]_vars

\* Two different logs were pending together and were stored in delivery order.
C2_Witness ==
  /\ Len(Added) >= 2
  /\ Added[1] # Added[2]
  /\ delivered[1] # delivered[2]

(***************************************************************************)
(* C3. A well-formed log goes through decode and construction, and with a  *)
(* working store its insert appends exactly one row, the row with the 0x   *)
(* lowercase hex hash and addresses, the decimal amounts, price and        *)
(* liquidity and the integer tick; then process_log returns Ok and the     *)
(* loop fetches again.                                                     *)
(***************************************************************************)
C3_RowOfWellFormedLog ==
  [][(IsSome(log) /\ WellFormed(Unwrap(log)) /\ pc' # pc) =>
       /\ pc = "decode_log_data" => pc' = "CombinedLog_new"
       /\ pc = "CombinedLog_new" => pc' = "insert_log"
       /\ (pc = "insert_log" /\ result' = "running") =>
            /\ pc' = "print_log"
            /\ db'.rows = Append(db.rows, ExpectedRow(Unwrap(log)))
            /\ ExpectedRow(Unwrap(log)) # NoRow
       /\ pc = "print_log" =>
            /\ pc' = "stream_next"
            /\ result' = "running"
            /\ db' = db]_vars

\* The log with the negative values and no hash has just been stored.
C3_Witness ==
  /\ pc = "print_log"
  /\ Unwrap(log) = PendingLog
  /\ db.rows[Len(db.rows)] = PendingRow

(***************************************************************************)
(* C4. No partial success.  The table is the rows of the earlier runs      *)
(* followed by one row for each log of a prefix of the delivered sequence; *)
(* the step on which a log fails leaves the table as it was, so the        *)
(* failing log has no row.                                                 *)
(***************************************************************************)
C4_NoPartialSuccess ==
  /\ [](/\ Len(db.rows) >= Len(db0.rows)
        /\ Len(Added) <= Len(delivered)
        /\ db.rows = db0.rows \o [i \in 1..Len(Added) |-> ExpectedRow(delivered[i])])
  /\ [][(IsSome(log) /\ result = "running" /\ result' \in ErrorResults) => db' = db]_vars
  /\ []((IsSome(log) /\ result \in ErrorResults) => Len(Added) = fetched - 1)

\* The second log failed: the first log's row and the earlier run's row are there.
C4_Witness ==
  /\ result \in ErrorResults
  /\ fetched = 2
  /\ Len(db0.rows) = 1
  /\ db.rows = db0.rows \o <<ExpectedRow(delivered[1])>>

(***************************************************************************)
(* C5. A log without a transaction hash is processed like any other: the   *)
(* CombinedLog carries the all-zero 32-byte hash and the stored tx_hash is *)
(* 0x followed by 64 zeros; a hash that is present is kept as it is.       *)
(***************************************************************************)
C5_MissingHashIsZero ==
  /\ IsSome(combined_log) =>
       /\ Len(Unwrap(combined_log).tx_hash) = HashBytes
       /\ Unwrap(log).transaction_hash = None =>
            \A i \in 1..HashBytes : Unwrap(combined_log).tx_hash[i] = 0
       /\ Unwrap(log).transaction_hash # None =>
            Unwrap(combined_log).tx_hash = Unwrap(log).transaction_hash[1]
  /\ (pc = "print_log" /\ Unwrap(log).transaction_hash = None) =>
       db.rows[Len(db.rows)].tx_hash = ZeroHashText
  /\ (pc = "print_log" /\ Unwrap(log).transaction_hash = Some(TestTxHash)) =>
       db.rows[Len(db.rows)].tx_hash = TestRow.tx_hash

\* A log without hash has been stored.
C5_Witness ==
  /\ pc = "print_log"
  /\ Unwrap(log).transaction_hash = None
  /\ db.rows[Len(db.rows)].tx_hash = ZeroHashText

(***************************************************************************)
(* C6. With a contract address that does not parse, run() ends with the    *)
(* error InvalidAddress once the store has been opened.                    *)
(***************************************************************************)
C6_InvalidAddressIsReturned ==
  (pc = "done" /\ ~Address_from_str(contract_address).ok /\ IsSome(db.schema))
    => result = "InvalidAddress"

(***************************************************************************)
(* C7. End of stream.  run() returns Ok only when the subscription has     *)
(* ended and every delivered log has been fetched and stored; when run()   *)
(* has ended with every delivered log stored and the subscription ended,   *)
(* it has returned Ok; and once the subscription has ended run() ends.     *)
(***************************************************************************)
C7_EndOfStream ==
  /\ [](result = "Ok" =>
          /\ closed /\ stream = <<>>
          /\ fetched = Len(delivered)
          /\ Added = [i \in 1..Len(delivered) |-> ExpectedRow(delivered[i])])
  /\ []((pc = "done" /\ closed /\ Len(Added) = Len(delivered)) => result = "Ok")
  /\ (closed ~> result # "running")

\* The subscription ended after two logs, both stored, and run() returned Ok.
C7_Witness ==
  /\ result = "Ok"
  /\ Len(delivered) = 2
  /\ Len(Added) = 2

(***************************************************************************)
(* C8. A payload shorter than five slots never yields a LogData: while     *)
(* such a log is being processed no LogData and no CombinedLog exist, no   *)
(* row was added for it, and run() ends at it with DecodeError.            *)
(***************************************************************************)
C8_ShortPayloadFails ==
  (IsSome(log) /\ Len(Unwrap(log).data) < PayloadBytes) =>
    /\ log_data = None
    /\ combined_log = None
    /\ Len(Added) = fetched - 1
    /\ Len(stdout) = fetched - 1
    /\ pc \in {"decode_log_data", "done"}
    /\ pc = "done" => result = "DecodeError"

\* A payload one byte short has been rejected.
C8_Witness ==
  /\ result = "DecodeError"
  /\ Len(Unwrap(log).data) = PayloadBytes - 1

(***************************************************************************)
(* C9. Store initialization is idempotent: on a store that holds a logs    *)
(* table it leaves the schema and every row as they were, on a store       *)
(* without one it creates the empty eight-column table, and initializing   *)
(* twice gives what initializing once gives.                               *)
(***************************************************************************)
C9_InitializeIdempotent ==
  [][(pc = "initialize_database" /\ pc' = "create_pool_filter") =>
       /\ db'.exists
       /\ IF IsSome(db.schema)
          THEN db'.schema = db.schema /\ db'.rows = db.rows
          ELSE /\ db'.schema = Some(LogsSchema)
               /\ Len(LogsSchema) = 8
               /\ db'.rows = <<>>
       /\ initialize_database(db') = db']_vars

\* Initialization succeeded on a store that already held a row.
C9_Witness ==
  /\ pc = "create_pool_filter"
  /\ db0.schema = Some(LogsSchema)
  /\ Len(db0.rows) >= 1
  /\ db.rows = db0.rows

(***************************************************************************)
(* C10. Append-only, no deduplication.  No step changes or removes a row   *)
(* or adds more than one; the number of rows added equals the number of    *)
(* logs fetched and stored, equal logs included.                           *)
(***************************************************************************)
C10_AppendOnly ==
  /\ [][/\ Len(db'.rows) \in {Len(db.rows), Len(db.rows) + 1}
        /\ SubSeq(db'.rows, 1, Len(db.rows)) = db.rows]_vars
  /\ [](Len(Added) = fetched - InFlight)

\* Two equal logs were delivered and there are two equal rows.
C10_Witness ==
  /\ Len(Added) = 2
  /\ delivered[1] = delivered[2]
  /\ Added[1] = Added[2]


(***************************************************************************)
(* C11. Output follows persistence.  A line is printed only by the print   *)
(* step, one line at a step, for the log whose row was committed just      *)
(* before and with the table left as it is; there are never more lines     *)
(* than added rows; a log whose decode or insert fails has no line; while  *)
(* the loop waits for the next log, and after run() returned Ok, there are *)
(* as many lines as added rows.                                            *)
(***************************************************************************)
C11_OutputFollowsPersistence ==
  /\ [](Len(stdout) <= Len(Added))
  /\ [][stdout' # stdout =>
          /\ pc = "print_log"
          /\ stdout' = Append(stdout, stdout'[Len(stdout')])
          /\ Len(Added) = Len(stdout) + 1
          /\ Len(Added) = fetched
          /\ db' = db]_vars
  /\ []((IsSome(log) /\ result \in ErrorResults) =>
          (Len(stdout) = fetched - 1 /\ Len(Added) = Len(stdout)))
  /\ []((pc = "stream_next" \/ result = "Ok") => Len(stdout) = Len(Added))

\* A row is committed and its line is still to come; one line was printed before.
C11_Witness ==
  /\ pc = "print_log"
  /\ Len(stdout) = 1
  /\ Len(Added) = 2


(***************************************************************************)
(* C12. A log with fewer than three topics is never persisted: while it is *)
(* the log in progress no CombinedLog exists, insert_log and print_log are *)
(* not reached, no row and no line exist for it, and run() ends at it, by  *)
(* the panic of the topic access when its payload decodes and by the       *)
(* decode error, which comes first, when it does not; after that nothing   *)
(* is fetched.                                                             *)
(***************************************************************************)
C12_ShortTopicsNotPersisted ==
  /\ []((IsSome(log) /\ Len(Unwrap(log).topics) < 3) =>
          /\ combined_log = None
          /\ pc \in {"decode_log_data", "CombinedLog_new", "done"}
          /\ Len(Added) = fetched - 1
          /\ Len(stdout) = fetched - 1
          /\ pc = "done" =>
               result = IF Len(Unwrap(log).data) >= PayloadBytes
                        THEN "panic" ELSE "DecodeError")
  /\ [][(IsSome(log) /\ Len(Unwrap(log).topics) < 3) =>
          /\ log' = log
          /\ fetched' = fetched
          /\ db' = db
          /\ stdout' = stdout
          /\ pc = "CombinedLog_new" => (pc' = pc \/ (pc' = "done" /\ result' = "panic"))
          /\ pc = "done" => UNCHANGED <<pc, result, stream>>]_vars

\* The second log has two topics: run() panicked at it with a later log pending.
C12_Witness ==
  /\ result = "panic"
  /\ fetched = 2
  /\ Len(Unwrap(log).topics) = 2
  /\ Len(Added) = 1
  /\ stream # <<>>


(***************************************************************************)
(* C13. The loop is left only on an error or on the end of the stream.     *)
(* Once subscribed, run() ends either with an error or a panic raised by   *)
(* the log in progress, or with Ok from the fetch that finds the           *)
(* subscription ended and nothing pending.  After a log is stored and      *)
(* printed the loop is at the fetch again, still running, and the fetch    *)
(* takes the next pending log.  While the subscription is open and nothing *)
(* failed, run() has not returned.                                         *)
(***************************************************************************)
C13_NoEarlyExit ==
  /\ [][(subscribed /\ pc # "done" /\ pc' = "done") =>
          \/ /\ IsSome(log)
             /\ pc \in {"decode_log_data", "CombinedLog_new", "insert_log"}
             /\ result' \in ErrorResults \cup {"panic"}
          \/ /\ pc = "stream_next"
             /\ closed /\ stream = <<>> /\ log = None
             /\ result' = "Ok"]_vars
  /\ [][(pc = "print_log" /\ pc' # pc) =>
          (pc' = "stream_next" /\ result' = "running" /\ log' = None)]_vars
  /\ [][(pc = "stream_next" /\ pc' # pc /\ stream # <<>>) =>
          (pc' = "decode_log_data" /\ result' = "running" /\ fetched' = fetched + 1)]_vars
  /\ []((subscribed /\ ~closed /\ pc = "done") => result \in ErrorResults \cup {"panic"})
  /\ []((subscribed /\ pc = "stream_next") => result = "running")

\* Two logs were stored and printed; the loop waits on the open subscription.
C13_Witness ==
  /\ pc = "stream_next"
  /\ result = "running"
  /\ ~closed
  /\ stream = <<>>
  /\ Len(stdout) = 2


(***************************************************************************)
(* C14. Startup order.  The statements of run() execute in the order store *)
(* initialization, filter construction, connection, subscription, each     *)
(* only after the ones before it succeeded.  When run() ends before the    *)
(* subscription exists it ends with a failure, no log was delivered or     *)
(* fetched, no row was added and nothing was printed.  A failed handshake  *)
(* ends run() with ConnectionError, with the logs table in place and the   *)
(* filter built, and run() does not connect again.                         *)
(***************************************************************************)
StartupOrder ==
  <<"initialize_database", "create_pool_filter", "connect_to_provider", "subscribe_logs">>

C14_StartupOrder ==
  /\ [](/\ IsSome(pool_filter) => (db.exists /\ IsSome(db.schema))
        /\ connected => IsSome(pool_filter)
        /\ subscribed => connected
        /\ (pc \notin {"initialize_database", "done"}) => (db.exists /\ IsSome(db.schema))
        /\ (pc \notin {"initialize_database", "create_pool_filter", "done"})
             => IsSome(pool_filter)
        /\ (pc \notin {"initialize_database", "create_pool_filter",
                       "connect_to_provider", "done"}) => connected)
  /\ [][\A i \in 1..Len(StartupOrder) :
          (pc = StartupOrder[i] /\ pc' # pc) =>
            \/ pc' = "done" /\ result' \in {"PersistenceError", "panic", "ConnectionError"}
            \/ /\ result' = "running"
               /\ pc' = IF i < Len(StartupOrder) THEN StartupOrder[i + 1] ELSE "stream_next"]_vars
  /\ []((pc = "done" /\ ~subscribed) =>
          /\ result \in {"PersistenceError", "panic", "ConnectionError"}
          /\ delivered = <<>> /\ stream = <<>> /\ fetched = 0
          /\ log = None
          /\ db.rows = db0.rows
          /\ stdout = <<>>)
  /\ []((pc = "done" /\ db.schema # db0.schema) => db0.schema = None)
  /\ [](result = "ConnectionError" =>
          /\ pc = "done"
          /\ db.exists /\ IsSome(db.schema)
          /\ IsSome(pool_filter)
          /\ ~subscribed)
  /\ [][result = "ConnectionError" => UNCHANGED <<pc, result, connected, subscribed, db>>]_vars

\* The handshake failed on a store that had no logs table: the table is there.
C14_Witness ==
  /\ result = "ConnectionError"
  /\ ~connected
  /\ db0.schema = None
  /\ db.schema = Some(LogsSchema)
  /\ db.rows = <<>>

====
